---- MODULE Spec2Model ----
(***************************************************************************)
(* VS mode of aichat (src/config/vs_mode.rs): one request is sent to every *)
(* model of the comparison set concurrently, each response is displayed as *)
(* it arrives, and in the REPL the operator then selects one response,     *)
(* which is committed to the conversation and whose model becomes the      *)
(* session's model.                                                        *)
(*                                                                         *)
(* A Model is represented by its id.  A string typed by the operator is a  *)
(* sequence of one-character strings, so that trim, the case-insensitive   *)
(* comparison and the integer parse are computed character by character.   *)
(***************************************************************************)
EXTENDS Integers, Sequences, FiniteSets, TLC

\* ------------------------------------------------------------- bounds
\* Largest number of identifiers given to one .vs command.
MaxModels == 2
\* Rounds are started only while the conversation holds fewer messages.
MaxHistory == 1

\* ------------------------------------------------------ value domains
\* Ids the model catalog resolves, and one it does not.
Catalog == {"a", "b"}
UnknownId == "zz"
\* The model the configuration starts with.
DefaultModel == "a"
\* Comma-separated identifier lists: split(',') yields at least one piece.
IdLists == UNION {[1..n -> Catalog \cup {UnknownId}] : n \in 1..MaxModels}
\* The characters of an identifier in a models string.
IdChars(id) == IF id = UnknownId THEN <<"z", "z">> ELSE <<id>>

\* The identifiers joined by a separator.
RECURSIVE JoinIds(_, _)
JoinIds(ids, sep) ==
  IF Len(ids) = 1 THEN IdChars(ids[1])
  ELSE IdChars(ids[1]) \o sep \o JoinIds(Tail(ids), sep)

\* Separators between identifiers: a comma, with or without blanks.
Separators == {<<",">>, <<" ", ",", " ">>}

\* The models strings given to vs_mode_init: the identifier lists joined,
\* the empty string, and a string that ends in a comma.
ModelStrings ==
  {JoinIds(ids, sep) : ids \in IdLists, sep \in Separators}
    \cup {<<>>, <<"a", ",">>}

\* Request texts; the first is the empty request.
EmptyRequest == ""
Requests == {EmptyRequest, "q"}
\* The text a model's chat call returns when it succeeds: texts of different
\* models differ, two calls of one model return the same text.
ResponseText(m) == <<"text of", m>>
\* Absent values of the Option fields.
NoVs == [some |-> FALSE, models |-> <<>>]
SomeVs(models) == [some |-> TRUE, models |-> models]
NoSession == "NoSession"
NoModel == "NoModel"

\* Lines the operator may type (read_line keeps the newline).
SelectionLines ==
  { <<>>,
    <<"1", "\n">>,
    <<"2", "\n">>,
    <<"3", "\n">>,
    <<" ", "2", " ", "\n">>,
    <<"+", "1", "\n">>,
    <<"0", "\n">>,
    <<"-", "1", "\n">>,
    <<"a", "\n">>,
    <<"e", "x", "i", "t", "\n">>,
    <<" ", "E", "x", "I", "T", " ", "\n">>,
    <<"Q", "U", "I", "T">>
  }

\* ---------------------------------------------------- string helpers
\* char::is_whitespace for the characters of SelectionLines
IsWhitespace(c) == c \in {" ", "\n", "\t", "\r"}

RECURSIVE TrimStart(_)
TrimStart(s) ==
  IF s # <<>> /\ IsWhitespace(Head(s)) THEN TrimStart(Tail(s)) ELSE s

RECURSIVE TrimEnd(_)
TrimEnd(s) ==
  IF s # <<>> /\ IsWhitespace(s[Len(s)])
  THEN TrimEnd(SubSeq(s, 1, Len(s) - 1))
  ELSE s

\* str::trim
trim(s) == TrimEnd(TrimStart(s))

\* u8::to_ascii_lowercase for the letters of SelectionLines
to_ascii_lowercase(c) ==
  CASE c = "E" -> "e"
    [] c = "X" -> "x"
    [] c = "I" -> "i"
    [] c = "T" -> "t"
    [] c = "Q" -> "q"
    [] c = "U" -> "u"
    [] OTHER -> c

\* Faulty variant: the comparison respects the letter case.
eq_case_sensitive(s, t) == s = t

\* str::eq_ignore_ascii_case
eq_ignore_ascii_case(s, t) ==
  /\ Len(s) = Len(t)
  /\ \A i \in 1..Len(s) : to_ascii_lowercase(s[i]) = to_ascii_lowercase(t[i])

DigitValue(c) ==
  CASE c = "0" -> 0 [] c = "1" -> 1 [] c = "2" -> 2 [] c = "3" -> 3
    [] c = "4" -> 4 [] c = "5" -> 5 [] c = "6" -> 6 [] c = "7" -> 7
    [] c = "8" -> 8 [] c = "9" -> 9 [] OTHER -> -1

RECURSIVE DigitsValue(_, _)
\* Value of a digit string, -1 when a character is no digit.
DigitsValue(s, acc) ==
  IF s = <<>> THEN acc
  ELSE IF DigitValue(Head(s)) < 0 THEN -1
  ELSE DigitsValue(Tail(s), acc * 10 + DigitValue(Head(s)))

\* str::parse::<usize>: an optional '+', then one or more digits; no '-'.
\* -1 stands for Err.  (The lines of SelectionLines never overflow a usize.)
parse_usize(s) ==
  LET digits == IF s # <<>> /\ Head(s) = "+" THEN Tail(s) ELSE s
  IN IF digits = <<>> THEN -1 ELSE DigitsValue(digits, 0)

\* str::split(','): the pieces between the commas, at least one.
RECURSIVE SplitFrom(_, _)
SplitFrom(s, piece) ==
  IF s = <<>> THEN <<piece>>
  ELSE IF Head(s) = "," THEN <<piece>> \o SplitFrom(Tail(s), <<>>)
  ELSE SplitFrom(Tail(s), Append(piece, Head(s)))

\* Faulty variant: the pieces are not trimmed.
split_models_untrimmed(models_str) == SplitFrom(models_str, <<>>)

\* Line 83: models_str.split(',').map(|s| s.trim()).collect()
split_models(models_str) ==
  LET pieces == SplitFrom(models_str, <<>>)
  IN [k \in 1..Len(pieces) |-> trim(pieces[k])]

\* ------------------------------------------------------------ state
VARIABLES
  vs_mode,         \* config.vs_mode: NoVs or SomeVs(the sequence of Models)
  model,           \* config.model, the configured default Model
  session,         \* the session's Model, NoSession when config.session is None
  history,         \* the conversation record: <<request text, response text>> pairs
  pc,              \* position of the REPL / of ask_vs and the selector
  ret,             \* the last returned Result: [op, res]
  input,           \* ask_vs: the Input, [text, model]
  show_selection,  \* ask_vs: the show_selection argument
  models_str,      \* vs_mode_init: the models string given
  vs,              \* ask_vs: the cloned vs_mode.models
  tasks,           \* the spawned tasks, by submission order
  rx,              \* the unbounded channel: messages sent and not yet received
  arrived,         \* every message sent on the channel, in the order sent
  completed,       \* ask_vs: the completion counter
  responses,       \* ask_vs: the Vec of (completed, model_id, result)
  display_order,   \* selector: the Vec of (display_index, model_id)
  selection_str,   \* selector: the line read from stdin
  selection,       \* selector: the parsed selection, 0 before it is parsed
  selected_index,  \* selector: selected_display_index, 0 before it is set
  selected_model,  \* selector: the Model resolved for the session
  generating,      \* number of "Generating... " indicators printed in the round
  shown,           \* the results displayed in the round, in display order
  menu,            \* the menu entries printed in the round
  prompts,         \* number of selection prompts printed in the round
  commits,         \* number of pairs appended to the conversation in the round
  rebinds,         \* number of session.set_model calls in the round
  lock,            \* the guard this thread holds on the GlobalConfig lock
  pre              \* the configuration when ask_vs was entered

cfgvars == <<vs_mode, model, session, history>>
askvars == <<input, show_selection, vs, tasks, rx, completed, responses>>
initvars == <<models_str>>
selvars == <<display_order, selection_str, selection, selected_index, selected_model>>
outvars == <<generating, shown, menu, prompts>>
cntvars == <<commits, rebinds, pre>>
vars ==
  <<cfgvars, pc, ret, askvars, initvars, arrived, selvars, outvars, cntvars, lock>>

\* Result<String, anyhow::Error>
Ok(text) == [ok |-> TRUE, val |-> text]
Err(cause) == [ok |-> FALSE, val |-> cause]
NoResult == [ok |-> FALSE, val |-> "pending"]

Returned(op, res) == [op |-> op, res |-> res]

\* No operation has returned since the REPL read its command.
NoReturn == Returned("none", "Ok")

\* ---------------------------------------------------- pure functions
\* prepare_input_with_model: a clone of the input whose role has the model
\* Faulty variant: the clone keeps the model of the request.
prepare_input_unbound(inp, m) == inp

prepare_input_with_model(inp, m) == [inp EXCEPT !.model = m]

\* Model::retrieve_model against the catalog of chat models: the Model of an
\* identifier the catalog knows, NoModel (an Err) for any other.
retrieve_model(model_id) ==
  IF Len(model_id) = 1 /\ model_id[1] \in Catalog THEN model_id[1] ELSE NoModel

\* The Input the caller builds: the text with the currently active model.
Input(text) ==
  [text |-> text, model |-> IF session # NoSession THEN session ELSE model]

\* Faulty variant: the error of a failed result is propagated like a render error.
display_response_propagating(result, renderOk) ==
  IF ~result.ok \/ ~renderOk THEN "RenderError" ELSE "Ok"

\* display_response: an Ok text goes through print_markdown, whose error is
\* propagated; an Err is written to stderr and never fails.
display_response(result, renderOk) ==
  IF result.ok /\ ~renderOk THEN "RenderError" ELSE "Ok"

\* Faulty variant: the upper bound of the selection is not checked.
parse_selection_no_upper(line, max_value) ==
  LET trimmed == trim(line)
      parsed == parse_usize(trimmed)
  IN IF \/ eq_ignore_ascii_case(trimmed, <<"e", "x", "i", "t">>)
        \/ eq_ignore_ascii_case(trimmed, <<"q", "u", "i", "t">>)
     THEN [kind |-> "Exit", value |-> 0]
     ELSE IF parsed = -1 \/ parsed < 1
     THEN [kind |-> "Err", value |-> 0]
     ELSE [kind |-> "Ok", value |-> parsed]

\* parse_selection: [kind |-> "Exit" | "Err" | "Ok", value]
parse_selection(line, max_value) ==
  LET trimmed == trim(line)
      parsed == parse_usize(trimmed)
  IN IF \/ eq_ignore_ascii_case(trimmed, <<"e", "x", "i", "t">>)
        \/ eq_ignore_ascii_case(trimmed, <<"q", "u", "i", "t">>)
     THEN [kind |-> "Exit", value |-> 0]
     ELSE IF parsed = -1
     THEN [kind |-> "Err", value |-> 0]
     ELSE IF parsed < 1 \/ parsed > max_value
     THEN [kind |-> "Err", value |-> 0]
     ELSE [kind |-> "Ok", value |-> parsed]

\* Faulty variant: the menu is built from every result, failed ones included.
DisplayOrderAll(results) ==
  [k \in 1..Len(results) |->
     [display_index |-> results[k].rank, model_id |-> results[k].model_id]]

\* The loop of lines 175-181: the (display_index, model_id) of the Ok results.
RECURSIVE DisplayOrder(_)
DisplayOrder(results) ==
  IF results = <<>> THEN <<>>
  ELSE LET r == Head(results)
       IN (IF r.result.ok
           THEN <<[display_index |-> r.rank, model_id |-> r.model_id]>>
           ELSE <<>>) \o DisplayOrder(Tail(results))

\* iter().position(|(idx, _, _)| *idx == wanted): 1-based here, 0 for None
RECURSIVE PositionFrom(_, _, _)
PositionFrom(results, wanted, k) ==
  IF k > Len(results) THEN 0
  ELSE IF results[k].rank = wanted THEN k
  ELSE PositionFrom(results, wanted, k + 1)

Position(results, wanted) == PositionFrom(results, wanted, 1)

\* Faulty variant: the set is not consulted and the default model is taken.
SelectedModelDefault(models, results, wanted) == model

\* Lines 207-214: the model at the position of the selected result in the
\* batch (unwrap_or(0) when no result has the display index), or the
\* configured default model when the set has no such position.
SelectedModel(models, results, wanted) ==
  LET pos == Position(results, wanted)
      original_index == IF pos = 0 THEN 0 ELSE pos - 1
  IN IF original_index + 1 <= Len(models)
     THEN models[original_index + 1]
     ELSE model

\* Session::set_model: the session's model becomes m.
set_model(sess, m) == m

\* Config::after_chat_completion: the pair is appended unless saving fails.
after_chat_completion(hist, inp, output, commitOk) ==
  IF commitOk THEN Append(hist, <<inp.text, output>>) ELSE hist

\* ------------------------------------------------------ initial state
NoInput == [text |-> EmptyRequest, model |-> NoModel]
NoPre == [vs_mode |-> NoVs, session |-> NoSession, history |-> <<>>]

\* The locals of ask_vs and of the selector, and what the round printed,
\* before a round starts.
RoundCleared ==
  /\ input = NoInput
  /\ show_selection = FALSE
  /\ models_str = <<>>
  /\ vs = <<>>
  /\ tasks = <<>>
  /\ rx = <<>>
  /\ arrived = <<>>
  /\ completed = 0
  /\ responses = <<>>
  /\ display_order = <<>>
  /\ selection_str = <<>>
  /\ selection = 0
  /\ selected_index = 0
  /\ selected_model = NoModel
  /\ generating = 0
  /\ shown = <<>>
  /\ menu = <<>>
  /\ prompts = 0
  /\ commits = 0
  /\ rebinds = 0
  /\ pre = NoPre

\* The same values as the next state of the round's variables.
ClearRound ==
  /\ input' = NoInput
  /\ show_selection' = FALSE
  /\ models_str' = <<>>
  /\ vs' = <<>>
  /\ tasks' = <<>>
  /\ rx' = <<>>
  /\ arrived' = <<>>
  /\ completed' = 0
  /\ responses' = <<>>
  /\ display_order' = <<>>
  /\ selection_str' = <<>>
  /\ selection' = 0
  /\ selected_index' = 0
  /\ selected_model' = NoModel
  /\ generating' = 0
  /\ shown' = <<>>
  /\ menu' = <<>>
  /\ prompts' = 0
  /\ commits' = 0
  /\ rebinds' = 0
  /\ pre' = NoPre

Init ==
  /\ vs_mode = NoVs
  /\ model = DefaultModel
  /\ session \in {NoSession, DefaultModel}
  /\ history = <<>>
  /\ pc = "idle"
  /\ lock = "none"
  /\ ret = NoReturn
  /\ RoundCleared

\* ---------------------------------------------------------- mode state
\* The configuration as an operation finds it.
Snapshot == [vs_mode |-> vs_mode, session |-> session, history |-> history]

\* Faulty variant: one model is enough.
too_few_models_one(models_list) == Len(models_list) < 1

\* Line 85: models_list.len() < 2
too_few_models(models_list) == Len(models_list) < 2

\* vs_mode_init (lines 79-103): the models are resolved in order, the first
\* that does not resolve is the error returned, and only then is the set
\* written.
vs_mode_init(str) ==
  /\ pc = "idle"
  /\ models_str' = str
  /\ pre' = Snapshot
  /\ LET models_list == split_models(str)
     IN IF too_few_models(models_list)
        THEN /\ ret' = Returned("vs_mode_init", "InvalidArity")
             /\ UNCHANGED vs_mode
        ELSE IF \E i \in 1..Len(models_list) : retrieve_model(models_list[i]) = NoModel
        THEN /\ ret' = Returned("vs_mode_init", "UnknownResponder")
             /\ UNCHANGED vs_mode
        ELSE /\ vs_mode' = SomeVs([i \in 1..Len(models_list) |->
                                       retrieve_model(models_list[i])])
             /\ ret' = Returned("vs_mode_init", "Ok")
  /\ pc' = "done"
  /\ UNCHANGED <<model, session, history, askvars, arrived, selvars, outvars,
                 commits, rebinds, lock>>

\* Config::exit_vs_mode
exit_vs_mode ==
  /\ pc = "idle"
  /\ pre' = Snapshot
  /\ vs_mode' = NoVs
  /\ ret' = Returned("exit_vs_mode", "Ok")
  /\ pc' = "done"
  /\ UNCHANGED <<model, session, history, askvars, initvars, arrived, selvars, outvars,
                 commits, rebinds, lock>>

\* ------------------------------------------------------------ dispatch
\* Faulty variant: the empty request is not recognised.
is_empty_never(inp) == FALSE

\* Input::is_empty
is_empty(inp) == inp.text = EmptyRequest

\* Faulty variant: a missing set is taken for an empty one.
not_in_vs_mode_never(cfg_vs_mode) == FALSE

\* Lines 118-125: the clone of cfg.vs_mode is None.
not_in_vs_mode(cfg_vs_mode) == ~cfg_vs_mode.some

\* The task spawned for one model of the set (lines 137-146).
SpawnedTask(inp, m) ==
  [pc |-> "spawned", model |-> m, input |-> inp, result |-> NoResult]

\* ask_vs up to config.read() (lines 107-120): the empty request returns at
\* once; otherwise the read guard is taken and cfg.vs_mode cloned under it.
ask_vs(text, show) ==
  /\ pc = "idle"
  /\ lock = "none"
  /\ (~is_empty(Input(text)) /\ vs_mode.some) => Len(history) < MaxHistory
  /\ input' = Input(text)
  /\ show_selection' = show
  /\ pre' = Snapshot
  /\ IF is_empty(Input(text))
     THEN /\ ret' = Returned("ask_vs", "Ok")
          /\ pc' = "done"
          /\ UNCHANGED <<vs, lock>>
     ELSE /\ lock' = "read"
          /\ vs' = vs_mode.models
          /\ pc' = "cloned"
          /\ UNCHANGED ret
  /\ UNCHANGED <<cfgvars, tasks, rx, completed, responses, initvars, arrived, selvars,
                 outvars, commits, rebinds>>

\* Lines 121-148: the block ends and the read guard is dropped; without a
\* set ask_vs bails; otherwise "Generating... " is printed and flushed and
\* one task is spawned per model.
ask_vs_spawn ==
  /\ pc = "cloned"
  /\ lock' = "none"
  /\ IF not_in_vs_mode(vs_mode)
     THEN /\ ret' = Returned("ask_vs", "ModeInactive")
          /\ pc' = "done"
          /\ UNCHANGED <<tasks, generating>>
     ELSE /\ generating' = generating + 1
          /\ \E flushOk \in BOOLEAN :
               IF flushOk
               THEN /\ tasks' = [i \in 1..Len(vs) |-> SpawnedTask(input, vs[i])]
                    /\ pc' = "recv"
                    /\ UNCHANGED ret
               ELSE /\ ret' = Returned("ask_vs", "IoError")
                    /\ pc' = "done"
                    /\ UNCHANGED tasks
  /\ UNCHANGED <<cfgvars, input, show_selection, vs, rx, completed, responses, initvars,
                 arrived, selvars, shown, menu, prompts, cntvars>>

\* tx.send((index, model.id(), result)) on the unbounded channel.
Send(i, result) ==
  LET msg == [index |-> i - 1, model_id |-> tasks[i].model, result |-> result]
  IN rx' = Append(rx, msg) /\ arrived' = Append(arrived, msg)

\* query_model's outcomes: create_client fails, the chat call fails, or the
\* chat call returns the text of the model the input is bound to.
Outcomes(inp) ==
  {Err("create_client"), Err("chat_completions"), Ok(ResponseText(inp.model))}

\* The spawned task (lines 142-145 and query_model): the input is rebound to
\* the task's model, the model is queried, and (index, model id, result) is
\* sent.  A task whose chat call hangs never takes this step.  Once ask_vs
\* has returned early the receiver is dropped: what a task still running
\* sends is discarded (let _ =), so such a task is not followed further.
QueryModel(i) ==
  /\ pc = "recv"
  /\ i \in 1..Len(tasks)
  /\ tasks[i].pc = "spawned"
  /\ LET model_input == prepare_input_with_model(tasks[i].input, tasks[i].model)
     IN \E result \in Outcomes(model_input) :
          /\ tasks' = [tasks EXCEPT ![i].pc = "done", ![i].input = model_input,
                                    ![i].result = result]
          /\ Send(i, result)
  /\ UNCHANGED <<cfgvars, pc, ret, input, show_selection, vs, completed, responses,
                 initvars, selvars, outvars, cntvars, lock>>

\* ----------------------------------------------------------- aggregator
\* Faulty variant: the message's submission index is used as the rank.
LabeledByIndex(rank, msg) ==
  [rank |-> msg.index + 1, model_id |-> msg.model_id, result |-> msg.result]

\* The triple pushed for a received message (lines 151-155): the counter is
\* the rank, the message's index is dropped.
Labeled(rank, msg) ==
  [rank |-> rank, model_id |-> msg.model_id, result |-> msg.result]

\* Faulty variant: the message sent last is received first.
rx_recv_last(q) == [msg |-> q[Len(q)], rest |-> SubSeq(q, 1, Len(q) - 1)]

\* rx.recv() on a channel that holds a message: the message sent first, and
\* the channel without it.
rx_recv(q) == [msg |-> Head(q), rest |-> Tail(q)]

\* The while-let loop up to print_markdown (lines 151-154 and 45-46): a
\* message is received, counted and its header printed; display_response
\* takes config.read() for an Ok text, and no guard for an Err.
Recv ==
  /\ pc = "recv"
  /\ rx # <<>>
  /\ lock = "none"
  /\ LET msg == rx_recv(rx).msg
         entry == Labeled(completed + 1, msg)
     IN /\ completed' = completed + 1
        /\ rx' = rx_recv(rx).rest
        /\ shown' = Append(shown, [entry |-> entry, rendered |-> FALSE])
        /\ lock' = IF msg.result.ok THEN "read" ELSE "none"
  /\ pc' = "display"
  /\ UNCHANGED <<cfgvars, ret, input, show_selection, vs, tasks, responses, initvars,
                 arrived, selvars, generating, menu, prompts, cntvars>>

\* display_response returns (lines 46-56) and the guard of line 46 is
\* dropped: on Ok the triple is pushed (line 155); the render error leaves
\* the loop and ask_vs (the ? of line 154), which drops rx.  The step takes
\* no await, and the tasks are not followed while it runs.
DisplayResponse ==
  /\ pc = "display"
  /\ lock' = "none"
  /\ LET entry == shown[Len(shown)].entry
     IN \E renderOk \in BOOLEAN :
          IF display_response(entry.result, renderOk) = "Ok"
          THEN /\ shown' = [shown EXCEPT ![Len(shown)].rendered = TRUE]
               /\ responses' = Append(responses, entry)
               /\ pc' = "recv"
               /\ UNCHANGED <<ret, rx>>
          ELSE /\ ret' = Returned("ask_vs", "RenderError")
               /\ pc' = "done"
               /\ rx' = <<>>
               /\ UNCHANGED <<responses, shown>>
  /\ UNCHANGED <<cfgvars, input, show_selection, vs, tasks, completed, initvars, arrived,
                 selvars, generating, menu, prompts, cntvars>>

\* Faulty variant: the loop ends as soon as the channel is empty (try_recv).
ChannelEmpty == rx = <<>>

\* rx.recv() returns None: the channel is empty and every sender is dropped
\* (the tx of line 148 and the clone each finished task held).
ChannelClosed ==
  /\ rx = <<>>
  /\ \A i \in 1..Len(tasks) : tasks[i].pc = "done"

\* The loop ends (line 151) and ask_vs goes on to lines 158-163.
RecvNone ==
  /\ pc = "recv"
  /\ ChannelClosed
  /\ IF show_selection
     THEN pc' = "select" /\ UNCHANGED ret
     ELSE pc' = "done" /\ ret' = Returned("ask_vs", "Ok")
  /\ UNCHANGED <<cfgvars, askvars, initvars, arrived, selvars, outvars, cntvars, lock>>

\* ------------------------------------------------------------- selector
\* results.iter().find(|(idx, _, _)| *idx == wanted); only used where
\* Position(results, wanted) # 0
Find(results, wanted) == results[Position(results, wanted)]

\* Faulty variant: the selection is taken for the rank.
selected_display_index_is_selection(order, sel) == sel

\* Line 193: display_order[selection - 1].0
selected_display_index(order, sel) == order[sel].display_index

\* select_response_without_display, lines 173-188: the menu and the prompt.
SelectMenu ==
  /\ pc = "select"
  /\ display_order' = DisplayOrder(responses)
  /\ menu' = menu \o DisplayOrder(responses)
  /\ IF DisplayOrder(responses) = <<>>
     THEN /\ ret' = Returned("ask_vs", "NoSelectableResults")
          /\ pc' = "done"
          /\ UNCHANGED prompts
     ELSE /\ prompts' = prompts + 1
          /\ \E flushOk \in BOOLEAN :
               IF flushOk
               THEN pc' = "read" /\ UNCHANGED ret
               ELSE pc' = "done" /\ ret' = Returned("ask_vs", "IoError")
  /\ UNCHANGED <<cfgvars, askvars, initvars, arrived, selection_str, selection, selected_index,
                 selected_model, generating, shown, cntvars, lock>>

\* Lines 190-200: the line is read and parsed, and the selected result found.
\* display_order[selection - 1] panics when the index is out of bounds.
SelectRead ==
  /\ pc = "read"
  /\ \E readOk \in BOOLEAN, line \in SelectionLines :
       IF ~readOk
       THEN /\ ret' = Returned("ask_vs", "IoError")
            /\ pc' = "done"
            /\ UNCHANGED <<selection_str, selection, selected_index>>
       ELSE LET parsed == parse_selection(line, Len(display_order))
                idx == selected_display_index(display_order, parsed.value)
            IN /\ selection_str' = line
               /\ IF parsed.kind = "Exit"
                  THEN /\ pc' = "exited"
                       /\ UNCHANGED <<ret, selection, selected_index>>
                  ELSE IF parsed.kind = "Err"
                  THEN /\ ret' = Returned("ask_vs", "InvalidSelection")
                       /\ pc' = "done"
                       /\ UNCHANGED <<selection, selected_index>>
                  ELSE IF parsed.value \notin 1..Len(display_order)
                  THEN /\ selection' = parsed.value
                       /\ pc' = "panicked"
                       /\ UNCHANGED <<ret, selected_index>>
                  ELSE /\ selection' = parsed.value
                       /\ selected_index' = idx
                       /\ IF Position(responses, idx) = 0
                          THEN /\ ret' = Returned("ask_vs", "NotFound")
                               /\ pc' = "done"
                          ELSE IF ~Find(responses, idx).result.ok
                          THEN /\ ret' = Returned("ask_vs", "Ok")
                               /\ pc' = "done"
                          ELSE /\ pc' = "resolve"
                               /\ UNCHANGED ret
  /\ UNCHANGED <<cfgvars, askvars, initvars, arrived, display_order, selected_model, outvars,
                 cntvars, lock>>

\* Lines 202-214: config.read() is taken and the model for the session is
\* found under it (cfg.vs_mode.as_ref().unwrap() panics when the mode is
\* inactive, and the unwinding drops the guard).
SelectResolve ==
  /\ pc = "resolve"
  /\ lock = "none"
  /\ IF ~vs_mode.some
     THEN pc' = "panicked" /\ UNCHANGED <<selected_model, lock>>
     ELSE /\ lock' = "read"
          /\ selected_model' = SelectedModel(vs_mode.models, responses, selected_index)
          /\ pc' = "unlock"
  /\ UNCHANGED <<cfgvars, ret, askvars, initvars, arrived, display_order, selection_str,
                 selection, selected_index, outvars, cntvars>>

\* Faulty variant: the read guard outlives the block.
SelectReadUnlockKept ==
  /\ pc = "unlock"
  /\ pc' = "commit"
  /\ UNCHANGED <<cfgvars, ret, askvars, initvars, arrived, selvars, outvars, cntvars,
                 lock>>

\* Line 215: the block ends and the read guard is dropped.
SelectReadUnlock ==
  /\ pc = "unlock"
  /\ lock' = "none"
  /\ pc' = "commit"
  /\ UNCHANGED <<cfgvars, ret, askvars, initvars, arrived, selvars, outvars, cntvars>>

\* Line 218: config.write().  The lock is not reentrant: requested while this
\* thread still holds a guard, it is never granted.
SelectWriteLock ==
  /\ pc = "commit"
  /\ IF lock = "none"
     THEN lock' = "write" /\ pc' = "committing"
     ELSE pc' = "deadlocked" /\ UNCHANGED lock
  /\ UNCHANGED <<cfgvars, ret, askvars, initvars, arrived, selvars, outvars, cntvars>>

\* Faulty variant: the session's model is set before the commit, so also when the
\* commit fails.
SelectCommitRebindFirst ==
  /\ pc = "committing"
  /\ LET response == Find(responses, selected_index).result.val
     IN \E commitOk \in BOOLEAN :
          /\ history' = after_chat_completion(history, input, response, commitOk)
          /\ IF session # NoSession
             THEN session' = set_model(session, selected_model) /\ rebinds' = rebinds + 1
             ELSE UNCHANGED <<session, rebinds>>
          /\ IF commitOk
             THEN commits' = commits + 1 /\ ret' = Returned("ask_vs", "Ok")
             ELSE UNCHANGED commits /\ ret' = Returned("ask_vs", "CommitError")
  /\ lock' = "none"
  /\ pc' = "done"
  /\ UNCHANGED <<vs_mode, model, askvars, initvars, arrived, selvars, outvars, pre>>

\* Line 219, under the write guard: the commit.  Its error returns from the
\* selector, which drops the guard.
SelectCommit ==
  /\ pc = "committing"
  /\ LET response == Find(responses, selected_index).result.val
     IN \E commitOk \in BOOLEAN :
          /\ history' = after_chat_completion(history, input, response, commitOk)
          /\ IF commitOk
             THEN /\ commits' = commits + 1
                  /\ pc' = "rebind"
                  /\ UNCHANGED <<ret, lock>>
             ELSE /\ ret' = Returned("ask_vs", "CommitError")
                  /\ lock' = "none"
                  /\ pc' = "done"
                  /\ UNCHANGED commits
  /\ UNCHANGED <<vs_mode, model, session, rebinds, askvars, initvars, arrived, selvars,
                 outvars, pre>>

\* Lines 222-225, still under the write guard: the session's model, and the
\* end of the block, where the guard is dropped.
SelectRebind ==
  /\ pc = "rebind"
  /\ IF session # NoSession
     THEN /\ session' = set_model(session, selected_model)
          /\ rebinds' = rebinds + 1
     ELSE UNCHANGED <<session, rebinds>>
  /\ ret' = Returned("ask_vs", "Ok")
  /\ lock' = "none"
  /\ pc' = "done"
  /\ UNCHANGED <<vs_mode, model, history, askvars, initvars, arrived, selvars, outvars,
                 commits, pre>>

\* ----------------------------------------------------------------- REPL
\* The operation has returned: its locals are dropped and the REPL reads the
\* next command.
ReplNext ==
  /\ pc = "done"
  /\ pc' = "idle"
  /\ ClearRound
  /\ ret' = NoReturn
  /\ UNCHANGED <<cfgvars, lock>>

Next ==
  \/ \E str \in ModelStrings : vs_mode_init(str)
  \/ exit_vs_mode
  \/ \E text \in Requests, show \in BOOLEAN : ask_vs(text, show)
  \/ ask_vs_spawn
  \/ \E i \in 1..MaxModels : QueryModel(i)
  \/ Recv
  \/ DisplayResponse
  \/ RecvNone
  \/ SelectMenu
  \/ SelectRead
  \/ SelectResolve
  \/ SelectReadUnlock
  \/ SelectWriteLock
  \/ SelectCommit
  \/ SelectRebind
  \/ ReplNext

Spec == Init /\ [][Next]_vars

\* Every spawned task completes, and the loop of ask_vs, woken by the runtime
\* for a message or for the closed channel, takes its step.
SpecFair ==
  /\ Spec
  /\ \A i \in 1..MaxModels : WF_vars(QueryModel(i))
  /\ WF_vars(Recv)
  /\ WF_vars(DisplayResponse)
  /\ WF_vars(RecvNone)

\* ================================================================ claims
\* What the claims speak of, stated without the operators of the selector.

\* The successful results of the batch, in batch order.
Successes == SelectSeq(responses, LAMBDA r : r.result.ok)

\* K, the number of successful results.
K == Len(Successes)

\* The aggregation loop has ended by rx.recv() returning None.
LoopEnded ==
  \/ pc \in {"select", "read", "resolve", "unlock", "commit", "committing", "rebind",
             "exited", "panicked", "deadlocked"}
  \/ pc = "done" /\ tasks # <<>> /\ ret.res # "RenderError"

\* The selector has printed its menu.
MenuShown == show_selection /\ LoopEnded /\ pc # "select"

\* The selector has read the operator's line.
InputRead ==
  \/ pc \in {"resolve", "unlock", "commit", "committing", "rebind", "exited",
             "panicked", "deadlocked"}
  \/ pc = "done" /\ prompts = 1 /\ ret.res # "IoError"

\* The lines of SelectionLines that denote an integer, and the integer.
IntegerLines ==
  { <<"1", "\n">>, <<"2", "\n">>, <<"3", "\n">>, <<" ", "2", " ", "\n">>,
    <<"+", "1", "\n">>, <<"0", "\n">>, <<"-", "1", "\n">> }

LineValue(line) ==
  CASE line = <<"1", "\n">> -> 1
    [] line = <<"2", "\n">> -> 2
    [] line = <<"3", "\n">> -> 3
    [] line = <<" ", "2", " ", "\n">> -> 2
    [] line = <<"+", "1", "\n">> -> 1
    [] line = <<"0", "\n">> -> 0
    [] line = <<"-", "1", "\n">> -> -1

\* The line denotes an integer in [lo, hi].
DenotesIn(line, lo, hi) == line \in IntegerLines /\ LineValue(line) \in lo..hi

\* The lines of SelectionLines that trim to exit or quit in some letter case.
ExitLines ==
  { <<"e", "x", "i", "t", "\n">>,
    <<" ", "E", "x", "I", "T", " ", "\n">>,
    <<"Q", "U", "I", "T">> }

\* C1: after a successful selection the session's model is the model that
\* produced the chosen response, the one named in the chosen menu entry.
C1_SessionIsChosenResponder ==
  (pc = "done" /\ commits = 1 /\ rebinds = 1)
    => session = menu[selection].model_id

\* C2: when the aggregation loop ends, the batch holds exactly one result per
\* model of the comparison set, whatever failed and in whatever order.
C2_BatchHoldsAllResults ==
  LoopEnded => /\ Len(responses) = Len(vs)
               /\ Len(vs) = Len(pre.vs_mode.models)

C2_Witness ==
  /\ pc = "select"
  /\ Len(vs) = 2
  /\ \E k \in 1..Len(responses) : ~responses[k].result.ok
  /\ responses[1].model_id # vs[1]

\* C3: the k-th result received has rank k: at every point the ranks of the
\* batch, and of what was displayed, are 1..len in order, and inside the loop
\* the counter equals the length of the batch.
C3_RanksFollowArrival ==
  /\ \A k \in 1..Len(responses) : responses[k].rank = k
  /\ \A k \in 1..Len(shown) : shown[k].entry.rank = k
  /\ pc = "recv" => completed = Len(responses)

\* The second model of the set arrived first and has rank 1.
C3_Witness ==
  /\ Len(responses) = 2
  /\ vs[1] # vs[2]
  /\ responses[1].model_id = vs[2]
  /\ responses[1].rank = 1
  /\ responses[2].rank = 2

\* Number of k in 1..Len(seq) with seq[k] carrying model id m and result r.
CountIn(seq, m, r) ==
  Cardinality({k \in 1..Len(seq) : seq[k].model_id = m /\ seq[k].result = r})

\* C4: a failed target does not fail the round.  Every finished task's own
\* result, failure or success, is in the channel or in the batch; ask_vs fails
\* while displaying only on a successful text; and a non-interactive round
\* whose targets all failed returns Ok with every failure in the batch.
C4_FailuresAreIsolated ==
  /\ (pc = "recv" \/ LoopEnded) =>
       \A m \in Catalog : \A r \in Outcomes([text |-> "q", model |-> m]) :
         Cardinality({i \in 1..Len(tasks) :
                        /\ tasks[i].pc = "done"
                        /\ tasks[i].model = m
                        /\ tasks[i].result = r})
           = CountIn(rx, m, r) + CountIn(responses, m, r)
  /\ (pc = "done" /\ ret.res = "RenderError") =>
       shown # <<>> /\ shown[Len(shown)].entry.result.ok
  /\ ( /\ pc = "done"
       /\ ~show_selection
       /\ tasks # <<>>
       /\ \A i \in 1..Len(tasks) : tasks[i].pc = "done" /\ ~tasks[i].result.ok )
       => /\ ret = Returned("ask_vs", "Ok")
          /\ Len(responses) = Len(tasks)
          /\ \A k \in 1..Len(responses) : ~responses[k].result.ok

C4_Witness ==
  /\ pc = "done"
  /\ ~show_selection
  /\ Len(tasks) = 2
  /\ tasks[1].result = Err("create_client")
  /\ tasks[2].result = Err("chat_completions")
  /\ ret = Returned("ask_vs", "Ok")
  /\ Len(responses) = 2

\* C5: the menu entries are the successful results in arrival order, and they
\* are numbered 1..K.
C5_MenuNumberedOneToK ==
  MenuShown =>
    /\ Len(menu) = K
    /\ \A j \in 1..Len(menu) :
         /\ menu[j].model_id = Successes[j].model_id
         /\ menu[j].display_index = j

\* The selector has run to its end (returned, exited or panicked).
SelectionOver ==
  show_selection /\ LoopEnded /\ pc \in {"done", "exited", "panicked"}

\* The line read denotes an integer in [1, K].
ChoseValid == InputRead /\ DenotesIn(selection_str, 1, K)

\* The pair a valid choice commits: the request and the text of the chosen
\* successful result.
ChosenPair == <<input.text, Successes[LineValue(selection_str)].result.val>>

\* Nothing was appended to the conversation and the session was not touched.
NothingCommitted ==
  /\ commits = 0
  /\ rebinds = 0
  /\ history = pre.history
  /\ session = pre.session

\* C6 as stated: a valid choice appends exactly one pair and updates the
\* session's model exactly once; no other outcome appends or updates.
C6_ValidChoiceCommitsOnce ==
  SelectionOver =>
    IF ChoseValid
    THEN /\ commits = 1
         /\ rebinds = 1
         /\ history = Append(pre.history, ChosenPair)
    ELSE NothingCommitted

\* C6, amended: a valid choice whose commit succeeds appends exactly one pair
\* and, when there is a session, sets the session's model exactly once (with
\* no session nothing is set); a valid choice whose commit fails sets nothing;
\* no other outcome appends or updates anything.
C6_CommitOnceWhenCommitSucceeds ==
  SelectionOver =>
    IF ChoseValid /\ ret.res = "Ok"
    THEN /\ commits = 1
         /\ history = Append(pre.history, ChosenPair)
         /\ rebinds = (IF pre.session = NoSession THEN 0 ELSE 1)
         /\ pre.session = NoSession => session = NoSession
    ELSE IF ChoseValid
    THEN /\ ret.res = "CommitError"
         /\ rebinds = 0
         /\ session = pre.session
    ELSE NothingCommitted

C6_Witness ==
  /\ pc = "done"
  /\ ChoseValid
  /\ ret = Returned("ask_vs", "Ok")
  /\ K = 1
  /\ Len(responses) = 2
  /\ commits = 1
  /\ rebinds = 1
  /\ Len(history) = Len(pre.history) + 1

\* C7: a line that is neither an integer in [1, K] nor exit/quit makes the
\* selector fail with InvalidSelection, and the conversation and the session
\* are as they were before the selection.
C7_InvalidSelectionChangesNothing ==
  ( /\ show_selection
    /\ InputRead
    /\ selection_str \notin ExitLines
    /\ ~DenotesIn(selection_str, 1, K) )
    => /\ pc = "done"
       /\ ret = Returned("ask_vs", "InvalidSelection")
       /\ NothingCommitted

\* A number greater than K was typed and refused.
C7_Witness ==
  /\ pc = "done"
  /\ InputRead
  /\ K = 1
  /\ DenotesIn(selection_str, 2, 2)
  /\ ret = Returned("ask_vs", "InvalidSelection")

\* C8: a line that trims to exit or quit in any letter case ends the process
\* in the selection step: nothing runs afterwards, nothing was appended and
\* the session was not rebound.
C8_ExitBeforeAnyCommit ==
  /\ (show_selection /\ InputRead /\ selection_str \in ExitLines)
       => pc = "exited" /\ NothingCommitted
  /\ pc = "exited" => selection_str \in ExitLines /\ ~ENABLED Next

C8_Witness ==
  /\ pc = "exited"
  /\ selection_str = <<" ", "E", "x", "I", "T", " ", "\n">>
  /\ K >= 1

\* C9: when every result of the batch is a failure the selector fails with
\* NoSelectableResults, prints no prompt and reads no line, and the
\* conversation and the session are unchanged.
C9_AllFailedNothingSelectable ==
  (show_selection /\ LoopEnded /\ pc # "select" /\ K = 0)
    => /\ pc = "done"
       /\ ret = Returned("ask_vs", "NoSelectableResults")
       /\ prompts = 0
       /\ menu = <<>>
       /\ selection_str = <<>>
       /\ NothingCommitted

C9_Witness ==
  /\ pc = "done"
  /\ show_selection
  /\ Len(responses) = 2
  /\ K = 0
  /\ ret = Returned("ask_vs", "NoSelectableResults")

\* C10: ask_vs with an empty request returns Ok at once: no task is spawned,
\* nothing is sent or printed, no result is produced, no selection runs, and
\* the comparison set, the conversation and the session are unchanged.
C10_EmptyRequestIsNoOp ==
  (pc # "idle" /\ input.text = EmptyRequest /\ (pc = "done" => ret.op = "ask_vs"))
    => /\ pc = "done"
       /\ ret = Returned("ask_vs", "Ok")
       /\ tasks = <<>>
       /\ rx = <<>>
       /\ generating = 0
       /\ completed = 0
       /\ responses = <<>>
       /\ shown = <<>>
       /\ menu = <<>>
       /\ prompts = 0
       /\ selection_str = <<>>
       /\ vs_mode = pre.vs_mode
       /\ NothingCommitted

\* An empty request while a comparison set is active, in the REPL.
C10_Witness ==
  /\ pc = "done"
  /\ ret.op = "ask_vs"
  /\ input.text = EmptyRequest
  /\ vs_mode.some
  /\ show_selection

\* ask_vs is running or has just returned.
InAskVs == pc # "idle" /\ (pc = "done" => ret.op = "ask_vs")

\* C11 as stated: ask_vs called while no comparison set is active fails with
\* ModeInactive whatever the request, and spawns no task.
C11_InactiveAlwaysFails ==
  (InAskVs /\ pc # "cloned" /\ ~pre.vs_mode.some)
    => /\ pc = "done"
       /\ ret = Returned("ask_vs", "ModeInactive")
       /\ tasks = <<>>

\* C11: ask_vs called with a request that is not empty while no comparison
\* set is active fails with ModeInactive: no task is spawned, nothing is sent
\* or printed and the configuration is unchanged.  (The empty request is
\* answered first, with Ok.)
C11_InactiveFailsForNonEmptyRequest ==
  (InAskVs /\ pc # "cloned" /\ ~pre.vs_mode.some /\ input.text # EmptyRequest)
    => /\ pc = "done"
       /\ ret = Returned("ask_vs", "ModeInactive")
       /\ tasks = <<>>
       /\ rx = <<>>
       /\ generating = 0
       /\ responses = <<>>
       /\ vs_mode = pre.vs_mode
       /\ NothingCommitted

\* A request that is not empty, with no comparison set.
C11_Witness ==
  /\ pc = "done"
  /\ ret = Returned("ask_vs", "ModeInactive")
  /\ input.text # EmptyRequest
  /\ ~pre.vs_mode.some

\* vs_mode_init has just returned.
InitReturned == pc = "done" /\ ret.op = "vs_mode_init"

\* The identifiers all name models of the catalog.
AllResolve(ids) == \A i \in 1..Len(ids) : ids[i] \in Catalog

\* C12: vs_mode_init given fewer than 2 identifiers fails with InvalidArity;
\* given 2 or more identifiers that all resolve it succeeds, and the set then
\* holds exactly the resolved models of the identifiers, as many and in the
\* order given, whatever set was active before.
C12_EnterArityAndOrder ==
  InitReturned
    => /\ models_str = <<>> => ret.res = "InvalidArity"
       /\ \A ids \in IdLists, sep \in Separators :
            models_str = JoinIds(ids, sep)
              => /\ Len(ids) < 2 => ret.res = "InvalidArity"
                 /\ (Len(ids) >= 2 /\ AllResolve(ids))
                      => /\ ret.res = "Ok"
                         /\ vs_mode.some
                         /\ Len(vs_mode.models) = Len(ids)
                         /\ \A i \in 1..Len(ids) : vs_mode.models[i] = ids[i]

\* A set is replaced by another one, given with blanks around the comma.
C12_Witness ==
  /\ InitReturned
  /\ ret.res = "Ok"
  /\ pre.vs_mode.some
  /\ vs_mode.models # pre.vs_mode.models
  /\ vs_mode.models[1] # vs_mode.models[2]
  /\ \E ids \in IdLists : models_str = JoinIds(ids, <<" ", ",", " ">>)

\* C13: in every state the comparison set is absent or holds at least 2
\* models, each one resolved from the catalog; a vs_mode_init that fails
\* leaves the set, or its absence, exactly as it was; exit_vs_mode leaves it
\* absent, also when it was absent already.
C13_SetAbsentOrAtLeastTwo ==
  /\ vs_mode.some
       => /\ Len(vs_mode.models) >= 2
          /\ \A i \in 1..Len(vs_mode.models) : vs_mode.models[i] \in Catalog
  /\ ~vs_mode.some => vs_mode = NoVs
  /\ (InitReturned /\ ret.res # "Ok") => vs_mode = pre.vs_mode
  /\ (pc = "done" /\ ret.op = "exit_vs_mode")
       => ~vs_mode.some /\ ret.res = "Ok"

\* A vs_mode_init that fails on its second identifier while a set is active.
C13_Witness ==
  /\ InitReturned
  /\ ret.res = "UnknownResponder"
  /\ models_str = <<"b", ",", "z", "z">>
  /\ pre.vs_mode.some
  /\ vs_mode = pre.vs_mode

\* C14: print_markdown failing on the text of one result does not end the
\* round: the result is still appended to the batch, the results after it
\* are still received, and ask_vs does not return the render error.
C14_RenderFailureDoesNotAbort ==
  (InAskVs /\ tasks # <<>> /\ pc # "display")
    => /\ Len(responses) = Len(shown)
       /\ pc = "done" => ret.res # "RenderError"

\* The k-th message sent on the channel, labelled with rank k.
ArrivedWithRank(k) ==
  [rank |-> k, model_id |-> arrived[k].model_id, result |-> arrived[k].result]

\* The results display_response was called for, in the order of the calls.
Displayed == [k \in 1..Len(shown) |-> shown[k].entry]

\* The displayed results are the first results that arrived, each with its
\* arrival position as rank, and the channel holds the later arrivals.
DisplayedInArrivalOrder ==
  /\ Len(shown) = completed
  /\ completed <= Len(arrived)
  /\ \A k \in 1..completed : shown[k].entry = ArrivedWithRank(k)
  /\ pc = "recv" => rx = SubSeq(arrived, completed + 1, Len(arrived))

\* C15: display_response is called for the k-th result that arrived, with
\* rank k and that result's model id and outcome, before the next result is
\* received; the sequence of displayed results is the arrival sequence and,
\* whenever the loop waits for the next result and when it has ended, it is
\* the batch sequence.
C15_DisplayedIsArrivalIsBatch ==
  (InAskVs /\ tasks # <<>>)
    => /\ DisplayedInArrivalOrder
       /\ (pc = "recv" \/ LoopEnded) => responses = Displayed

\* Both results were displayed, the second model's first.
C15_Witness ==
  /\ pc = "select"
  /\ Len(shown) = 2
  /\ arrived[1].index = 1
  /\ responses = Displayed
  /\ shown[1].entry.model_id # shown[2].entry.model_id

\* C16: for a line that trims to an integer s in [1, K] the result resolved
\* is the s-th successful result in arrival order, whatever its rank, and
\* the pair appended to the conversation is the original request with that
\* result's text.
C16_ResolvesSthSuccess ==
  (show_selection /\ InputRead /\ DenotesIn(selection_str, 1, K))
    => LET chosen == Successes[LineValue(selection_str)]
       IN /\ pc \in {"resolve", "unlock", "commit", "committing", "rebind", "done"}
          /\ selected_index = chosen.rank
          /\ Find(responses, selected_index) = chosen
          /\ (pc = "done" /\ ret.res = "Ok")
               => history = Append(pre.history, <<input.text, chosen.result.val>>)
          /\ (pc = "done" /\ ret.res # "Ok") => history = pre.history

\* The first successful result arrived second: line 1 resolves rank 2.
C16_Witness ==
  /\ pc = "done"
  /\ ret = Returned("ask_vs", "Ok")
  /\ commits = 1
  /\ DenotesIn(selection_str, 1, 1)
  /\ ~responses[1].result.ok
  /\ selected_index = 2
  /\ history = Append(pre.history, <<input.text, responses[2].result.val>>)

\* The selector has resolved the model for the session.
ModelResolved ==
  /\ show_selection
  /\ ChoseValid
  /\ \/ pc \in {"unlock", "commit", "committing", "rebind"}
     \/ pc = "done" /\ ret.res \in {"Ok", "CommitError"}

\* The results were sent in the order in which their tasks were spawned.
CompletedInSubmissionOrder ==
  \A k \in 1..Len(arrived) : arrived[k].index = k - 1

\* C17: on a valid choice the model resolved for the session is the model of
\* the comparison set at the position the chosen result has in the batch
\* (its rank, less one, as a 0-based index), the default model being taken
\* only when the set has no such position; it is the model that produced the
\* chosen result whenever the results arrived in submission order.
C17_ResolvedByBatchPosition ==
  ModelResolved
    => LET chosen == Successes[LineValue(selection_str)]
           position == CHOOSE k \in 1..Len(responses) : responses[k] = chosen
       IN /\ position = chosen.rank
          /\ position <= Len(vs_mode.models)
               => selected_model = vs_mode.models[position]
          /\ position > Len(vs_mode.models) => selected_model = model
          /\ selected_model # model => position <= Len(vs_mode.models)
          /\ CompletedInSubmissionOrder => selected_model = chosen.model_id
          /\ (pc = "done" /\ ret.res = "Ok" /\ pre.session # NoSession)
               => session = selected_model

\* The chosen result came from the second model of the set and arrived
\* first: the model resolved is the first model of the set.
C17_Witness ==
  /\ ModelResolved
  /\ pc = "done"
  /\ rebinds = 1
  /\ ~CompletedInSubmissionOrder
  /\ selected_index = 1
  /\ responses[1].model_id = vs_mode.models[2]
  /\ session = vs_mode.models[1]
  /\ vs_mode.models[1] # vs_mode.models[2]

\* Every task has sent its result.
AllReported == \A i \in 1..Len(tasks) : tasks[i].pc = "done"

\* C18: the loop of ask_vs ends exactly when every spawned task has
\* reported: once it has ended, every task has sent its result and the batch
\* holds all of them, so with a task that never completes the loop does not
\* end and the selector is not reached.
C18_LoopEndsWhenAllReported ==
  (InAskVs /\ tasks # <<>> /\ pc \notin {"recv", "display"})
    => AllReported /\ Len(responses) = Len(tasks)

\* What holds of the end of the loop when no render fails: it has not ended
\* while a task is still running.
C18_ExceptAfterRenderFailure ==
  ( /\ InAskVs
    /\ tasks # <<>>
    /\ pc \notin {"recv", "display"}
    /\ ~(pc = "done" /\ ret.res = "RenderError") )
    => AllReported /\ Len(responses) = Len(tasks)

\* When every task completes, the loop ends.
C18_LoopEndsWhenTasksComplete ==
  (pc = "recv") ~> (pc \notin {"recv", "display"})

\* The positions of the sequence whose element satisfies the test.
Where(seq, Test(_)) == {k \in 1..Len(seq) : Test(seq[k])}

\* C19: each model at index i of the comparison set is queried by exactly
\* one task, with the request bound to that model and to no other; the task
\* sends exactly one message, carrying that model's id and the task's own
\* outcome; the request of ask_vs itself is not rebound; and the ids of a
\* complete batch are the ids of the set, each as often as in the set.
C19_OneTaskPerModel ==
  (InAskVs /\ tasks # <<>>)
    => /\ Len(tasks) = Len(vs)
       /\ vs = pre.vs_mode.models
       /\ input.model = (IF pre.session # NoSession THEN pre.session ELSE model)
       /\ \A i \in 1..Len(tasks) :
            LET sent == Where(arrived, LAMBDA msg : msg.index = i - 1)
            IN /\ tasks[i].model = vs[i]
               /\ tasks[i].input.text = input.text
               /\ tasks[i].pc = "spawned"
                    => sent = {} /\ tasks[i].input = input
               /\ tasks[i].pc = "done"
                    => /\ tasks[i].input.model = vs[i]
                       /\ tasks[i].result.ok
                            => tasks[i].result.val = ResponseText(vs[i])
                       /\ Cardinality(sent) = 1
                       /\ \A k \in sent : /\ arrived[k].model_id = vs[i]
                                          /\ arrived[k].result = tasks[i].result
       /\ LoopEnded
            => \A m \in Catalog :
                 Cardinality(Where(responses, LAMBDA r : r.model_id = m))
                   = Cardinality(Where(vs, LAMBDA v : v = m))

\* Two different models, the second answering first, each with its own text.
C19_Witness ==
  /\ pc = "select"
  /\ vs[1] # vs[2]
  /\ input.model = vs[1]
  /\ responses[1].model_id = vs[2]
  /\ responses[1].result = Ok(ResponseText(vs[2]))
  /\ responses[2].result = Ok(ResponseText(vs[1]))

\* C20: the lock of the configuration is never held across a wait: no guard
\* is held while the loop awaits the next result or the selector waits for
\* the operator's line; a read guard is held only inside the three short
\* blocks that take one, and the selector's is dropped before config.write()
\* is called (which is therefore granted); the write guard is held only for
\* the commit and the session's model, and outside it no state shows the one
\* without the other.
C20_NoLockAcrossWait ==
  /\ pc \in {"recv", "read"} => lock = "none"
  /\ pc \in {"idle", "select", "resolve", "done", "exited", "panicked"} => lock = "none"
  /\ lock = "read" <=> \/ pc \in {"cloned", "unlock"}
                       \/ pc = "display" /\ shown[Len(shown)].entry.result.ok
  /\ pc = "commit" => lock = "none"
  /\ pc # "deadlocked"
  /\ lock = "write" <=> pc \in {"committing", "rebind"}
  /\ (InAskVs /\ lock # "write" /\ commits = 1)
       => /\ history = Append(pre.history, ChosenPair)
          /\ rebinds = (IF pre.session = NoSession THEN 0 ELSE 1)
          /\ pre.session # NoSession => session = selected_model

\* The pair is appended and the session's model not yet set: the write guard
\* is held.
C20_Witness ==
  /\ pc = "rebind"
  /\ lock = "write"
  /\ commits = 1
  /\ rebinds = 0
  /\ history # pre.history
  /\ session # NoSession
  /\ session # selected_model

====
